---- MODULE Spec2Model ----
(***************************************************************************)
(* Ticket management API: identifier codec (GUID type decorator), ticket   *)
(* table, repository, service and HTTP routes.                             *)
(*                                                                         *)
(* Python values are tagged records:                                       *)
(*   [t |-> "UUID", hex |-> <<32 nibbles>>]   a uuid.UUID object           *)
(*   [t |-> "str",  s   |-> <<characters>>]   a str                        *)
(*   [t |-> "int",  n   |-> 999]              an int                       *)
(*   [t |-> "None"]                           None                         *)
(* A call that may raise returns [ok |-> TRUE, val |-> v] or               *)
(* [ok |-> FALSE, exc |-> "<exception class>"].                            *)
(***************************************************************************)
EXTENDS Integers, Sequences, FiniteSets, TLC

VARIABLES
    store,      \* rows of table "tickets", in rowid order
    issued,     \* identifiers drawn from uuid.uuid4 so far, in draw order
    deleted,    \* identifiers whose delete committed (history)
    born,       \* created_at each stored ticket was inserted with, by identifier
    now,        \* the clock read by datetime.utcnow
    last,       \* the request being answered and its response, or NoCall
    cpc,        \* codec run: position
    cdialect,   \* codec run: dialect name
    cvalue,     \* codec run: the value given to process_bind_param
    cbound,     \* codec run: outcome of process_bind_param
    cloaded,    \* codec run: outcome of process_result_value
    sess,       \* concurrent updates: each session's position and instance
    commits,    \* concurrent updates: the sessions in the order they committed
    db,         \* class SQLiteDatabase: its attributes and what it created so far
    dbcall,     \* the last call on the database holder and its outcome
    reqs        \* each HTTP request's position and the session get_db gave it

vars == <<store, issued, deleted, born, now, last, cpc, cdialect, cvalue, cbound, cloaded,
         sess, commits, db, dbcall, reqs>>

appVars == <<store, issued, deleted, born, now, last>>

codecVars == <<cpc, cdialect, cvalue, cbound, cloaded>>

sessVars == <<sess, commits>>

dbVars == <<db, dbcall, reqs>>

----------------------------------------------------------------------------
\* Bounds of the model.

\* identifiers uuid4 can hand out in one run
NumUUIDs == 2

\* identifiers the codec runs start from
NumCodecUUIDs == 4

\* largest clock value
MaxTime == 1

\* largest skip given to list
MaxSkip == 3

\* largest limit given to list
MaxLimit == 2

\* engines create_engine can make in one run
MaxEngines == 2

\* sessions the session factory can hand out in one run
MaxSessions == 3

----------------------------------------------------------------------------
\* Sequences and characters.

Min(a, b) == IF a < b THEN a ELSE b

Max(a, b) == IF a > b THEN a ELSE b

Range(s) == {s[i] : i \in DOMAIN s}

Ok(v) == [ok |-> TRUE, val |-> v]

Raise(e) == [ok |-> FALSE, exc |-> e]

PyNone == [t |-> "None"]

PyStr(chars) == [t |-> "str", s |-> chars]

PyInt(n) == [t |-> "int", n |-> n]

PyUUID(hex) == [t |-> "UUID", hex |-> hex]

LowerHex == <<"0", "1", "2", "3", "4", "5", "6", "7", "8", "9", "a", "b", "c", "d", "e", "f">>

UpperHex == <<"0", "1", "2", "3", "4", "5", "6", "7", "8", "9", "A", "B", "C", "D", "E", "F">>

\* value of one hexadecimal digit, either case
HexVal(c) ==
    IF c \in Range(LowerHex)
    THEN (CHOOSE i \in 1..16 : LowerHex[i] = c) - 1
    ELSE (CHOOSE i \in 1..16 : UpperHex[i] = c) - 1

\* s with every occurrence of character c removed: str.replace(c, '')
RECURSIVE RemoveChar(_, _)
RemoveChar(s, c) ==
    IF s = <<>> THEN <<>>
    ELSE IF Head(s) = c THEN RemoveChar(Tail(s), c)
    ELSE <<Head(s)>> \o RemoveChar(Tail(s), c)

IsPrefix(p, s) == Len(p) <= Len(s) /\ SubSeq(s, 1, Len(p)) = p

\* s with every occurrence of the substring sub removed, left to right:
\* str.replace(sub, '')
RECURSIVE RemoveSub(_, _)
RemoveSub(s, sub) ==
    IF s = <<>> THEN <<>>
    ELSE IF IsPrefix(sub, s) THEN RemoveSub(SubSeq(s, Len(sub) + 1, Len(s)), sub)
    ELSE <<Head(s)>> \o RemoveSub(Tail(s), sub)

\* str.strip(chars): leading and trailing characters of the set removed
RECURSIVE LStrip(_, _)
LStrip(s, cs) == IF s # <<>> /\ Head(s) \in cs THEN LStrip(Tail(s), cs) ELSE s

RECURSIVE RStrip(_, _)
RStrip(s, cs) ==
    IF s # <<>> /\ s[Len(s)] \in cs THEN RStrip(SubSeq(s, 1, Len(s) - 1), cs) ELSE s

Strip(s, cs) == RStrip(LStrip(s, cs), cs)

----------------------------------------------------------------------------
\* uuid.UUID: str(u) and UUID(text).

\* '%032x' % int: 32 lowercase hexadecimal digits
UUIDHex(u) == [i \in 1..32 |-> LowerHex[u.hex[i] + 1]]

\* UUID.__str__: the 32 digits grouped 8-4-4-4-12
UUIDStr(u) ==
    SubSeq(UUIDHex(u), 1, 8) \o <<"-">> \o SubSeq(UUIDHex(u), 9, 12) \o <<"-">>
        \o SubSeq(UUIDHex(u), 13, 16) \o <<"-">> \o SubSeq(UUIDHex(u), 17, 20)
        \o <<"-">> \o SubSeq(UUIDHex(u), 21, 32)

\* hex.replace('urn:', '').replace('uuid:', '')
WithoutURN(s) == RemoveSub(RemoveSub(s, <<"u", "r", "n", ":">>), <<"u", "u", "i", "d", ":">>)

\* hex.strip('{}').replace('-', '')
WithoutBraces(s) == RemoveChar(Strip(s, {"{", "}"}), "-")

\* int(hex, 16) of exactly 32 digits
FromHex(h) ==
    IF Len(h) # 32 THEN Raise("ValueError")
    ELSE IF \E i \in 1..32 : h[i] \notin Range(LowerHex) \cup Range(UpperHex)
    THEN Raise("ValueError")
    ELSE Ok(PyUUID([i \in 1..32 |-> HexVal(h[i])]))

\* UUID.__init__(hex=value)
UUIDInit(value) ==
    IF value.t # "str" THEN Raise("AttributeError")
    ELSE FromHex(WithoutBraces(WithoutURN(value.s)))

----------------------------------------------------------------------------
\* GUID type decorator.

GUIDImplLength == 36

\* a bind that hands a text on as it was given
BindParamTextAsGiven(value, dialect) ==
    IF value.t = "None" THEN Ok(value)
    ELSE IF dialect = "postgresql" THEN Ok(value)
    ELSE IF value.t = "UUID" THEN Ok(PyStr(UUIDStr(value)))
    ELSE IF UUIDInit(value).ok THEN Ok(value)
    ELSE UUIDInit(value)

\* a bind that writes any value that is no UUID object as its text
BindParamAnyText(value, dialect) ==
    IF value.t = "None" THEN Ok(value)
    ELSE IF dialect = "postgresql" THEN Ok(value)
    ELSE IF value.t = "UUID" THEN Ok(PyStr(UUIDStr(value)))
    ELSE IF value.t = "int" THEN Ok(PyStr(<<"9", "9", "9">>))
    ELSE Ok(value)

\* GUID.process_bind_param
process_bind_param(value, dialect) ==
    IF value.t = "None" THEN Ok(value)
    ELSE IF dialect = "postgresql" THEN Ok(value)
    ELSE IF value.t = "UUID" THEN Ok(PyStr(UUIDStr(value)))
    ELSE IF UUIDInit(value).ok THEN Ok(PyStr(UUIDStr(UUIDInit(value).val)))
    ELSE UUIDInit(value)

ResultValueUnparsed(value, dialect) == Ok(value)

\* a load that answers None for a text it cannot parse
ResultValueLenient(value, dialect) ==
    IF value.t = "None" THEN Ok(value)
    ELSE IF dialect = "postgresql" THEN Ok(value)
    ELSE IF UUIDInit(value).ok THEN UUIDInit(value)
    ELSE Ok(PyNone)

\* GUID.process_result_value
process_result_value(value, dialect) ==
    IF value.t = "None" THEN Ok(value)
    ELSE IF dialect = "postgresql" THEN Ok(value)
    ELSE UUIDInit(value)

----------------------------------------------------------------------------
\* Identifiers.

\* the k-th identifier of the pool: 32 nibbles, version nibble 4 and an
\* RFC 4122 variant nibble as uuid4 sets them
MkUUID(k) ==
    PyUUID([i \in 1..32 |->
        IF i = 13 THEN 4
        ELSE IF i = 17 THEN 8 + (k % 4)
        ELSE (k * i + i - 1) % 16])

\* a text uuid.UUID rejects, given where an identifier is expected
MalformedId == PyStr(<<"9", "9", "9">>)

\* an identifier no create ever draws
StrangerUUID == PyUUID([i \in 1..32 |-> IF i = 13 THEN 4 ELSE IF i = 17 THEN 8 ELSE 15])

uuid4_called_once(n) == MkUUID(0)

\* uuid.uuid4 as the column default: the (n+1)-th draw of the generator
uuid4(n) == MkUUID(n)

ToUpper(chars) ==
    [i \in DOMAIN chars |->
        IF chars[i] \in Range(LowerHex)
        THEN UpperHex[CHOOSE j \in 1..16 : LowerHex[j] = chars[i]]
        ELSE chars[i]]

\* texts uuid.UUID accepts for the identifier u
TextForms(u) ==
    { UUIDStr(u),
      ToUpper(UUIDStr(u)),
      UUIDHex(u),
      <<"{">> \o UUIDStr(u) \o <<"}">>,
      <<"u", "r", "n", ":", "u", "u", "i", "d", ":">> \o UUIDStr(u) }

\* texts uuid.UUID rejects
BadTexts ==
    { <<"9", "9", "9">>,
      SubSeq(UUIDStr(MkUUID(0)), 1, 35),
      [UUIDStr(MkUUID(0)) EXCEPT ![1] = "g"] }

CodecUUIDs == {MkUUID(k) : k \in 0..(NumCodecUUIDs - 1)}

CodecValues ==
    CodecUUIDs
    \cup {PyNone, PyInt(999)}
    \cup {PyStr(s) : s \in UNION {TextForms(u) : u \in CodecUUIDs}}
    \cup {PyStr(s) : s \in BadTexts}

----------------------------------------------------------------------------
\* Codec runs: one value bound for a statement, then loaded from the result.

NoOutcome == [ok |-> FALSE, exc |-> "not run"]

CodecIdle ==
    /\ cpc = "idle"
    /\ cdialect = "sqlite"
    /\ cvalue = PyNone
    /\ cbound = NoOutcome
    /\ cloaded = NoOutcome

CodecInit ==
    /\ cpc = "start"
    /\ cdialect \in {"postgresql", "sqlite"}
    /\ cvalue \in CodecValues
    /\ cbound = NoOutcome
    /\ cloaded = NoOutcome

CodecBind ==
    /\ cpc = "start"
    /\ cbound' = process_bind_param(cvalue, cdialect)
    /\ cpc' = "bound"
    /\ UNCHANGED <<cdialect, cvalue, cloaded>>

CodecLoad ==
    /\ cpc = "bound"
    /\ cbound.ok
    /\ cloaded' = process_result_value(cbound.val, cdialect)
    /\ cpc' = "loaded"
    /\ UNCHANGED <<cdialect, cvalue, cbound>>

\* a stored value is loaded from a result row; a CHAR(36) column can hold
\* NULL or a text, written by this application or not
CodecDecode ==
    /\ cpc = "start"
    /\ cvalue.t \in {"None", "str"}
    /\ cloaded' = process_result_value(cvalue, cdialect)
    /\ cpc' = "decoded"
    /\ UNCHANGED <<cdialect, cvalue, cbound>>

----------------------------------------------------------------------------
\* Ticket table and ORM mapping.

\* the dialect of the engine the application creates
AppDialect == "sqlite"

TicketStatus == {"open", "stalled", "closed"}

TicketStatusOPEN == "open"

TicketStatusCLOSED == "closed"

\* the values the requests of a run give as identifiers
AppValues ==
    {uuid4(k) : k \in 0..(NumUUIDs - 1)} \cup {StrangerUUID, PyInt(999), MalformedId}

\* process_bind_param and process_result_value on those values and on the
\* column values they are stored as, computed once
BindMemo == [v \in AppValues |-> process_bind_param(v, AppDialect)]

ResultMemo ==
    [c \in {BindMemo[v].val : v \in {w \in AppValues : BindMemo[w].ok}} |->
        process_result_value(c, AppDialect)]

\* the column value stored for identifier u
BoundId(u) == BindMemo[u].val

\* Ticket(title=..., description=..., status=...) at INSERT: the column
\* defaults fill id and created_at
NewRow(title, description, status, n, clock) ==
    [id |-> BoundId(uuid4(n)), title |-> title, description |-> description,
     status |-> status, created_at |-> clock]

\* a Ticket instance loaded from its row
LoadRow(row) ==
    [id |-> ResultMemo[row.id].val, title |-> row.title,
     description |-> row.description, status |-> row.status,
     created_at |-> row.created_at]

\* positions of the rows whose id column equals the bound parameter
Matching(tbl, param) == {i \in DOMAIN tbl : tbl[i].id = param}

RemoveAt(tbl, i) == SubSeq(tbl, 1, i - 1) \o SubSeq(tbl, i + 1, Len(tbl))

\* session.add + flush: the row goes after the existing rows
InsertRow(tbl, row) == Append(tbl, row)

OffsetFromOne(tbl, skip, limit) == SubSeq(tbl, skip + 2, Min(Len(tbl), skip + 1 + limit))

\* query.offset(skip).limit(limit).all()
OffsetLimit(tbl, skip, limit) == SubSeq(tbl, skip + 1, Min(Len(tbl), skip + limit))

----------------------------------------------------------------------------
\* Repository.  Each operation returns [exc, val, tbl]: the exception
\* raised ("none" on return), the value returned and the committed table.
\* fault names the statement at which the storage raises: "execute" (the
\* SELECT), "commit", "refresh", or "none".

Returned(val, tbl) == [exc |-> "none", val |-> val, tbl |-> tbl, rollback |-> FALSE]

\* an exception raised without db.rollback(): a bare raise
Raised(exc, tbl) == [exc |-> exc, val |-> PyNone, tbl |-> tbl, rollback |-> FALSE]

\* the generic handler: db.rollback(), then the typed failure
Failed(exc, tbl) == [exc |-> exc, val |-> PyNone, tbl |-> tbl, rollback |-> TRUE]

\* add, commit and refresh of a new row
CommitNew(tbl, row, fault) ==
    IF fault = "commit" \/ Matching(tbl, row.id) # {}
    THEN Failed("TicketCreationFailedException", tbl)
    ELSE IF fault = "refresh"
    THEN Failed("TicketCreationFailedException", InsertRow(tbl, row))
    ELSE Returned(LoadRow(row), InsertRow(tbl, row))

\* TicketRepository.create_ticket
repo_create_ticket(tbl, ticket, n, clock, fault) ==
    CommitNew(tbl, NewRow(ticket.title, ticket.description, TicketStatusOPEN, n, clock), fault)

\* query.filter(Ticket.id == ticket_id).first(), given the bound parameter
First(tbl, param, fault) ==
    IF ~param.ok THEN Raised("StatementError", tbl)
    ELSE IF fault = "execute" THEN Raised("OperationalError", tbl)
    ELSE IF Matching(tbl, param.val) = {} THEN Returned(PyNone, tbl)
    ELSE Returned(LoadRow(tbl[CHOOSE i \in Matching(tbl, param.val) : TRUE]), tbl)

\* TicketRepository.get_ticket
repo_get_ticket(tbl, ticket_id, fault) == First(tbl, BindMemo[ticket_id], fault)

\* the Ticket instances of the selected rows
Loaded(rows) == [i \in DOMAIN rows |-> LoadRow(rows[i])]

\* TicketRepository.get_tickets
repo_get_tickets(tbl, skip, limit, fault) ==
    IF fault = "execute" THEN Raised("OperationalError", tbl)
    ELSE Returned(Loaded(OffsetLimit(tbl, skip, limit)), tbl)

\* position of the row of a loaded ticket
RowOf(tbl, ticket) == CHOOSE i \in DOMAIN tbl : tbl[i].id = BoundId(ticket.id)

UpdateColumnsAsNew(row, ticket_update) ==
    [row EXCEPT !.title = ticket_update.title,
                !.description = ticket_update.description,
                !.status = TicketStatusOPEN]

UpdateColumnsTitleOnly(row, ticket_update) == [row EXCEPT !.title = ticket_update.title]

UpdateColumnsRestamped(row, ticket_update) ==
    [row EXCEPT !.title = ticket_update.title,
                !.description = ticket_update.description,
                !.created_at = @ + 1]

UpdateColumnsStalled(row, ticket_update) ==
    [row EXCEPT !.title = ticket_update.title,
                !.description = ticket_update.description,
                !.status = IF @ = TicketStatusOPEN THEN "stalled" ELSE @]

\* the assignments of update_ticket
UpdateColumns(row, ticket_update) ==
    [row EXCEPT !.title = ticket_update.title,
                !.description = ticket_update.description]

CloseColumnsToggle(row) ==
    [row EXCEPT !.status = IF @ = TicketStatusCLOSED THEN TicketStatusOPEN
                           ELSE TicketStatusCLOSED]

CloseColumnsRetitled(row) == [row EXCEPT !.status = "closed", !.title = "closed"]

CloseColumnsUnlisted(row) == [row EXCEPT !.status = "done"]

\* the assignment of close_ticket
CloseColumns(row) == [row EXCEPT !.status = TicketStatusCLOSED]

\* commit and refresh of row i rewritten as row; failure is the exception
\* the operation wraps a storage error in
Commit(tbl, i, row, fault, failure) ==
    IF fault = "commit" THEN Failed(failure, tbl)
    ELSE IF fault = "refresh" THEN Failed(failure, [tbl EXCEPT ![i] = row])
    ELSE Returned(LoadRow(row), [tbl EXCEPT ![i] = row])

UpdateRow(tbl, i, ticket_update, fault) ==
    Commit(tbl, i, UpdateColumns(tbl[i], ticket_update), fault, "TicketUpdateFailedException")

UpdateFoundWrapped(tbl, found, ticket_update, fault) ==
    IF found.exc # "none" \/ found.val = [t |-> "None"]
    THEN [exc |-> "TicketUpdateFailedException", val |-> [t |-> "None"], tbl |-> tbl,
          rollback |-> TRUE]
    ELSE UpdateRow(tbl, RowOf(tbl, found.val), ticket_update, fault)

\* update_ticket after its lookup
UpdateFound(tbl, found, ticket_update, fault) ==
    IF found.exc # "none" THEN Failed("TicketUpdateFailedException", tbl)
    ELSE IF found.val = PyNone THEN Raised("TicketNotFoundException", tbl)
    ELSE UpdateRow(tbl, RowOf(tbl, found.val), ticket_update, fault)

\* TicketRepository.update_ticket
repo_update_ticket(tbl, ticket_id, ticket_update, fault) ==
    UpdateFound(tbl, repo_get_ticket(tbl, ticket_id, fault), ticket_update, fault)

\* close_ticket after its lookup
CloseFound(tbl, found, fault) ==
    IF found.exc # "none" THEN Failed("TicketUpdateFailedException", tbl)
    ELSE IF found.val = PyNone THEN Raised("TicketNotFoundException", tbl)
    ELSE Commit(tbl, RowOf(tbl, found.val), CloseColumns(tbl[RowOf(tbl, found.val)]), fault,
                "TicketUpdateFailedException")

\* TicketRepository.close_ticket
repo_close_ticket(tbl, ticket_id, fault) ==
    CloseFound(tbl, repo_get_ticket(tbl, ticket_id, fault), fault)

SoftDelete(tbl, i) == [tbl EXCEPT ![i].status = TicketStatusCLOSED]

\* a delete whose statement also matches the rows inserted earlier
DeleteRowAndOlder(tbl, i) == SubSeq(tbl, i + 1, Len(tbl))

\* session.delete + commit
DeleteRow(tbl, i) == RemoveAt(tbl, i)

\* delete_ticket after its lookup
DeleteFound(tbl, found, fault) ==
    IF found.exc # "none" THEN Failed("TicketDeletionFailedException", tbl)
    ELSE IF found.val = PyNone THEN Raised("TicketNotFoundException", tbl)
    ELSE IF fault = "commit" THEN Failed("TicketDeletionFailedException", tbl)
    ELSE Returned(PyNone, DeleteRow(tbl, RowOf(tbl, found.val)))

\* TicketRepository.delete_ticket
repo_delete_ticket(tbl, ticket_id, fault) ==
    DeleteFound(tbl, repo_get_ticket(tbl, ticket_id, fault), fault)

----------------------------------------------------------------------------
\* Schemas.  A request body is [fields, title, description, status]: the
\* set of keys present and their values ("" for an absent key).

TitleMinLength == 1

TitleMaxLength == 200

DescriptionMinLength == 1

TicketBaseUnbounded(body) ==
    IF /\ "title" \in body.fields
       /\ Len(body.title) >= 1
       /\ "description" \in body.fields
       /\ Len(body.description) >= 1
    THEN [ok |-> TRUE, val |-> [title |-> body.title, description |-> body.description]]
    ELSE [ok |-> FALSE, exc |-> "ValidationError"]

\* TicketBase: title and description are required and length-checked;
\* keys the model does not declare are ignored
TicketBase(body) ==
    IF /\ "title" \in body.fields
       /\ Len(body.title) >= TitleMinLength
       /\ Len(body.title) <= TitleMaxLength
       /\ "description" \in body.fields
       /\ Len(body.description) >= DescriptionMinLength
    THEN Ok([title |-> body.title, description |-> body.description])
    ELSE Raise("ValidationError")

\* TicketCreate
TicketCreate(body) == TicketBase(body)

\* TicketUpdate
TicketUpdate(body) == TicketBase(body)

\* TicketResponse.model_validate(ticket), from attributes
TicketResponse(ticket) ==
    IF /\ ticket.id.t = "UUID"
       /\ ticket.status \in TicketStatus
       /\ Len(ticket.title) >= TitleMinLength
       /\ Len(ticket.title) <= TitleMaxLength
       /\ Len(ticket.description) >= DescriptionMinLength
    THEN Ok(ticket)
    ELSE Raise("ValidationError")

\* a repository result shaped into the response model: the response model
\* of the returned ticket, or the validation error
Shaped(r) ==
    IF r.exc # "none" THEN r
    ELSE IF TicketResponse(r.val).ok THEN Returned(TicketResponse(r.val).val, r.tbl)
    ELSE Raised(TicketResponse(r.val).exc, r.tbl)

----------------------------------------------------------------------------
\* Service.

\* TicketService.create_ticket
svc_create_ticket(tbl, ticket_data, n, clock, fault) ==
    Shaped(repo_create_ticket(tbl, ticket_data, n, clock, fault))

\* get_ticket after the repository call
GetFound(r, tbl) ==
    IF r.exc # "none" THEN r
    ELSE IF r.val = PyNone THEN Raised("TicketNotFoundException", tbl)
    ELSE Shaped(r)

\* TicketService.get_ticket
svc_get_ticket(tbl, ticket_id, fault) == GetFound(repo_get_ticket(tbl, ticket_id, fault), tbl)

\* get_tickets after the repository call
ShapedAll(r, tbl) ==
    IF r.exc # "none" THEN r
    ELSE IF \E i \in DOMAIN r.val : ~TicketResponse(r.val[i]).ok
    THEN Raised("ValidationError", tbl)
    ELSE Returned([i \in DOMAIN r.val |-> TicketResponse(r.val[i]).val], tbl)

\* TicketService.get_tickets
svc_get_tickets(tbl, skip, limit, fault) ==
    ShapedAll(repo_get_tickets(tbl, skip, limit, fault), tbl)

\* TicketService.update_ticket
svc_update_ticket(tbl, ticket_id, ticket_data, fault) ==
    Shaped(repo_update_ticket(tbl, ticket_id, ticket_data, fault))

\* TicketService.close_ticket
svc_close_ticket(tbl, ticket_id, fault) ==
    Shaped(repo_close_ticket(tbl, ticket_id, fault))

\* TicketService.delete_ticket
svc_delete_ticket(tbl, ticket_id, fault) == repo_delete_ticket(tbl, ticket_id, fault)

----------------------------------------------------------------------------
\* Exceptions and their HTTP status.

HTTP_200_OK == 200

HTTP_201_CREATED == 201

HTTP_204_NO_CONTENT == 204

HTTP_404_NOT_FOUND == 404

HTTP_422_UNPROCESSABLE_ENTITY == 422

HTTP_500_INTERNAL_SERVER_ERROR == 500

\* the status_code each HTTPException subclass is built with; any other
\* exception leaves the route unhandled and the server answers 500
StatusCode(exc) ==
    IF exc = "TicketNotFoundException" THEN HTTP_404_NOT_FOUND
    ELSE HTTP_500_INTERNAL_SERVER_ERROR

----------------------------------------------------------------------------
\* Routes.  A path segment is a sequence of characters; a response is
\* [code, val, tbl].

\* the text is one or more of the digits 0 to 9
IsDecimal(chars) ==
    chars # <<>> /\ \A i \in DOMAIN chars : chars[i] \in Range(SubSeq(LowerHex, 1, 10))

RECURSIVE DecimalValue(_)
DecimalValue(chars) ==
    IF chars = <<>> THEN 0
    ELSE 10 * DecimalValue(SubSeq(chars, 1, Len(chars) - 1)) + HexVal(chars[Len(chars)])

\* ticket_id: int = Path(..., gt=0)
PathTicketId(segment) ==
    IF IsDecimal(segment) /\ DecimalValue(segment) > 0
    THEN Ok(PyInt(DecimalValue(segment)))
    ELSE Raise("RequestValidationError")

\* str(u) for the identifiers of a run, computed once
StrMemo == [u \in {v \in AppValues : v.t = "UUID"} |-> UUIDStr(u)]

\* the path parameter of each segment, computed once
PathMemo ==
    [g \in {StrMemo[u] : u \in DOMAIN StrMemo} \cup {<<"9", "9", "9">>, <<"0">>} |->
        PathTicketId(g)]

\* the JSON form of a TicketResponse: the id as its text
TicketJson(ticket) ==
    [id |-> StrMemo[ticket.id], title |-> ticket.title, description |-> ticket.description,
     status |-> ticket.status, created_at |-> ticket.created_at]

Response(code, val, tbl, rollback) ==
    [code |-> code, val |-> val, tbl |-> tbl, rollback |-> rollback]

\* a service outcome as the response of a route answering `success`
Answer(r, success) ==
    IF r.exc # "none" THEN Response(StatusCode(r.exc), PyNone, r.tbl, r.rollback)
    ELSE IF r.val = PyNone THEN Response(success, PyNone, r.tbl, r.rollback)
    ELSE Response(success, TicketJson(r.val), r.tbl, r.rollback)

Unprocessable(tbl) == Response(HTTP_422_UNPROCESSABLE_ENTITY, PyNone, tbl, FALSE)

CreateValidated(tbl, ticket_data, n, clock, fault) ==
    IF ~ticket_data.ok THEN Unprocessable(tbl)
    ELSE Answer(svc_create_ticket(tbl, ticket_data.val, n, clock, fault), HTTP_201_CREATED)

\* POST /tickets
route_create_ticket(tbl, body, n, clock, fault) ==
    CreateValidated(tbl, TicketCreate(body), n, clock, fault)

GetValidated(tbl, ticket_id, fault) ==
    IF ~ticket_id.ok THEN Unprocessable(tbl)
    ELSE Answer(svc_get_ticket(tbl, ticket_id.val, fault), HTTP_200_OK)

\* GET /tickets/{ticket_id}
route_get_ticket(tbl, segment, fault) == GetValidated(tbl, PathMemo[segment], fault)

UpdateValidated(tbl, ticket_id, ticket_data, fault) ==
    IF ~ticket_id.ok \/ ~ticket_data.ok THEN Unprocessable(tbl)
    ELSE Answer(svc_update_ticket(tbl, ticket_id.val, ticket_data.val, fault), HTTP_200_OK)

\* PUT /tickets/{ticket_id}
route_update_ticket(tbl, segment, body, fault) ==
    UpdateValidated(tbl, PathMemo[segment], TicketUpdate(body), fault)

CloseValidated(tbl, ticket_id, fault) ==
    IF ~ticket_id.ok THEN Unprocessable(tbl)
    ELSE Answer(svc_close_ticket(tbl, ticket_id.val, fault), HTTP_200_OK)

\* PATCH /tickets/{ticket_id}/close
route_close_ticket(tbl, segment, fault) == CloseValidated(tbl, PathMemo[segment], fault)

DeleteValidated(tbl, ticket_id, fault) ==
    IF ~ticket_id.ok THEN Unprocessable(tbl)
    ELSE Answer(svc_delete_ticket(tbl, ticket_id.val, fault), HTTP_204_NO_CONTENT)

\* DELETE /tickets/{ticket_id}
route_delete_ticket(tbl, segment, fault) == DeleteValidated(tbl, PathMemo[segment], fault)

----------------------------------------------------------------------------
\* Inputs of the requests.

PlainBody(title, description) ==
    [fields |-> {"title", "description"}, title |-> title, description |-> description,
     status |-> ""]

\* bodies of create requests
CreateBodies == {PlainBody("T1", "D1"), PlainBody("T2", "D2")}

\* a title one character longer than the schema allows
LongTitle ==
    "aaaaaaaaaaaaaaaaaaaaaaaaaaaaaaaaaaaaaaaaaaaaaaaaaaaaaaaaaaaaaaaaaaaaaaaaaaaaaaaaaaaaaaaaaaaaaaaaaaaaaaaaaaaaaaaaaaaaaaaaaaaaaaaaaaaaaaaaaaaaaaaaaaaaaaaaaaaaaaaaaaaaaaaaaaaaaaaaaaaaaaaaaaaaaaaaaaaaaaaaa"

\* bodies the schemas reject: title missing, empty, too long; description
\* missing, empty
InvalidBodies ==
    { [fields |-> {"description"}, title |-> "", description |-> "D1", status |-> ""],
      PlainBody("", "D1"),
      PlainBody(LongTitle, "D1"),
      [fields |-> {"title"}, title |-> "T1", description |-> "", status |-> ""],
      PlainBody("T1", "") }

\* a status text outside the enumeration, as the API test sends it
InvalidStatus == "invalid_status"

\* bodies of update requests: without a status key, with each status, and
\* with a status outside the enumeration
UpdateBodies ==
    {PlainBody("T3", "D3")}
    \cup {[fields |-> {"title", "description", "status"}, title |-> "T3",
           description |-> "D3", status |-> st] : st \in TicketStatus \cup {InvalidStatus}}

\* identifiers given to the service: every one drawn so far, one never
\* drawn, the integer the routes pass on, and a malformed text
ServiceIds == Range(issued) \cup {StrangerUUID, PyInt(999), MalformedId}

\* path segments: the texts of those identifiers, and integers
PathSegments ==
    {StrMemo[u] : u \in Range(issued) \cup {StrangerUUID}}
    \cup {<<"9", "9", "9">>, <<"0">>}

NoBody == [fields |-> {}, title |-> "", description |-> "", status |-> ""]

\* the record of one handled request
Call(layer, op, arg, body, skip, limit, fault, exc, code, val, rollback) ==
    [layer |-> layer, op |-> op, arg |-> arg, body |-> body, skip |-> skip,
     limit |-> limit, fault |-> fault, exc |-> exc, code |-> code, val |-> val,
     rollback |-> rollback, before |-> store]

NoCall == [layer |-> "none", op |-> "none", arg |-> PyNone, body |-> NoBody, skip |-> 0,
     limit |-> 0, fault |-> "none", exc |-> "none", code |-> 0, val |-> PyNone,
     rollback |-> FALSE, before |-> <<>>]

\* the identifiers of the rows of a table
StoredIds(tbl) == {LoadRow(tbl[i]).id : i \in DOMAIN tbl}

\* the row of identifier u in a table that holds it
RowById(tbl, u) == tbl[CHOOSE i \in DOMAIN tbl : LoadRow(tbl[i]).id = u]

\* the record of insertions after a call: a row that was not there gets the
\* created_at the INSERT stored, a row that stays keeps its entry, a row
\* that is gone loses it
BornAfter(b, tbl) ==
    [u \in StoredIds(tbl) |-> IF u \in DOMAIN b THEN b[u] ELSE RowById(tbl, u).created_at]

\* no request is being answered
Idle == last.op = "none"

----------------------------------------------------------------------------
\* Requests at the service layer.

\* the clock advances; it is read only when a ticket is inserted, so it is
\* let run while an insert can still follow
Tick ==
    /\ Idle
    /\ now < MaxTime
    /\ Len(issued) < NumUUIDs
    /\ now' = now + 1
    /\ UNCHANGED <<store, issued, deleted, born, last, codecVars, sessVars, dbVars>>

SvcCreate ==
    /\ Idle
    /\ Len(issued) < NumUUIDs
    /\ \E body \in CreateBodies, fault \in {"none", "commit", "refresh"} :
        \E r \in {svc_create_ticket(store, TicketCreate(body).val, Len(issued), now, fault)} :
        /\ store' = r.tbl
        /\ born' = BornAfter(born, r.tbl)
        /\ issued' = Append(issued, uuid4(Len(issued)))
        /\ last' = Call("service", "create", PyNone, body, 0, 0, fault, r.exc, 0, r.val, r.rollback)
    /\ UNCHANGED <<deleted, now, codecVars, sessVars, dbVars>>

SvcGet ==
    /\ Idle
    /\ \E ticket_id \in ServiceIds, fault \in {"none", "execute"} :
        \E r \in {svc_get_ticket(store, ticket_id, fault)} :
        /\ ticket_id = MalformedId => fault = "none"
        /\ store' = r.tbl
        /\ born' = BornAfter(born, r.tbl)
        /\ last' = Call("service", "get", ticket_id, NoBody, 0, 0, fault, r.exc, 0, r.val, r.rollback)
    /\ UNCHANGED <<issued, deleted, now, codecVars, sessVars, dbVars>>

SvcList ==
    /\ Idle
    /\ \E skip \in 0..MaxSkip, limit \in 1..MaxLimit, fault \in {"none", "execute"} :
        \E r \in {svc_get_tickets(store, skip, limit, fault)} :
        /\ fault # "none" => (skip = 0 /\ limit = 1)
        /\ store' = r.tbl
        /\ born' = BornAfter(born, r.tbl)
        /\ last' = Call("service", "list", PyNone, NoBody, skip, limit, fault, r.exc, 0, r.val, r.rollback)
    /\ UNCHANGED <<issued, deleted, now, codecVars, sessVars, dbVars>>

SvcUpdate ==
    /\ Idle
    /\ \E ticket_id \in ServiceIds, body \in UpdateBodies,
          fault \in {"none", "execute", "commit", "refresh"} :
        \E r \in {svc_update_ticket(store, ticket_id, TicketUpdate(body).val, fault)} :
        /\ fault # "none" => body = PlainBody("T3", "D3")
        /\ ticket_id = MalformedId => body = PlainBody("T3", "D3") /\ fault = "none"
        /\ store' = r.tbl
        /\ born' = BornAfter(born, r.tbl)
        /\ last' = Call("service", "update", ticket_id, body, 0, 0, fault, r.exc, 0, r.val, r.rollback)
    /\ UNCHANGED <<issued, deleted, now, codecVars, sessVars, dbVars>>

SvcClose ==
    /\ Idle
    /\ \E ticket_id \in ServiceIds, fault \in {"none", "execute", "commit", "refresh"} :
        \E r \in {svc_close_ticket(store, ticket_id, fault)} :
        /\ ticket_id = MalformedId => fault = "none"
        /\ store' = r.tbl
        /\ born' = BornAfter(born, r.tbl)
        /\ last' = Call("service", "close", ticket_id, NoBody, 0, 0, fault, r.exc, 0, r.val, r.rollback)
    /\ UNCHANGED <<issued, deleted, now, codecVars, sessVars, dbVars>>

SvcDelete ==
    /\ Idle
    /\ \E ticket_id \in ServiceIds, fault \in {"none", "execute", "commit"} :
        \E r \in {svc_delete_ticket(store, ticket_id, fault)} :
        /\ ticket_id = MalformedId => fault = "none"
        /\ store' = r.tbl
        /\ born' = BornAfter(born, r.tbl)
        /\ deleted' = IF r.exc = "none" THEN deleted \cup {ticket_id} ELSE deleted
        /\ last' = Call("service", "delete", ticket_id, NoBody, 0, 0, fault, r.exc, 0, r.val, r.rollback)
    /\ UNCHANGED <<issued, now, codecVars, sessVars, dbVars>>

----------------------------------------------------------------------------
\* Requests through the routes.

HttpCreate ==
    /\ Idle
    /\ Len(issued) < NumUUIDs
    /\ \E body \in CreateBodies \cup InvalidBodies, fault \in {"none", "commit", "refresh"} :
        \E r \in {route_create_ticket(store, body, Len(issued), now, fault)} :
        /\ body \in InvalidBodies => fault = "none"
        /\ store' = r.tbl
        /\ born' = BornAfter(born, r.tbl)
        /\ issued' = IF TicketCreate(body).ok
                     THEN Append(issued, uuid4(Len(issued))) ELSE issued
        /\ last' = Call("http", "create", PyNone, body, 0, 0, fault, "none", r.code, r.val, r.rollback)
    /\ UNCHANGED <<deleted, now, codecVars, sessVars, dbVars>>

HttpGet ==
    /\ Idle
    /\ \E segment \in PathSegments, fault \in {"none", "execute"} :
        \E r \in {route_get_ticket(store, segment, fault)} :
        /\ store' = r.tbl
        /\ born' = BornAfter(born, r.tbl)
        /\ last' = Call("http", "get", PyStr(segment), NoBody, 0, 0, fault, "none",
                        r.code, r.val, r.rollback)
    /\ UNCHANGED <<issued, deleted, now, codecVars, sessVars, dbVars>>

HttpUpdate ==
    /\ Idle
    /\ \E segment \in PathSegments, body \in UpdateBodies \cup InvalidBodies,
          fault \in {"none", "execute"} :
        \E r \in {route_update_ticket(store, segment, body, fault)} :
        /\ fault # "none" => body = PlainBody("T3", "D3")
        /\ body \in InvalidBodies => PathMemo[segment].ok
        /\ store' = r.tbl
        /\ born' = BornAfter(born, r.tbl)
        /\ last' = Call("http", "update", PyStr(segment), body, 0, 0, fault, "none",
                        r.code, r.val, r.rollback)
    /\ UNCHANGED <<issued, deleted, now, codecVars, sessVars, dbVars>>

HttpClose ==
    /\ Idle
    /\ \E segment \in PathSegments, fault \in {"none", "execute"} :
        \E r \in {route_close_ticket(store, segment, fault)} :
        /\ store' = r.tbl
        /\ born' = BornAfter(born, r.tbl)
        /\ last' = Call("http", "close", PyStr(segment), NoBody, 0, 0, fault, "none",
                        r.code, r.val, r.rollback)
    /\ UNCHANGED <<issued, deleted, now, codecVars, sessVars, dbVars>>

HttpDelete ==
    /\ Idle
    /\ \E segment \in PathSegments, fault \in {"none", "execute"} :
        \E r \in {route_delete_ticket(store, segment, fault)} :
        /\ store' = r.tbl
        /\ born' = BornAfter(born, r.tbl)
        /\ deleted' = IF r.code = HTTP_204_NO_CONTENT
                      THEN deleted \cup {UUIDInit(PyStr(segment)).val} ELSE deleted
        /\ last' = Call("http", "delete", PyStr(segment), NoBody, 0, 0, fault, "none",
                        r.code, r.val, r.rollback)
    /\ UNCHANGED <<issued, now, codecVars, sessVars, dbVars>>

\* the response is sent and the request ends
Finish ==
    /\ ~Idle
    /\ last' = NoCall
    /\ UNCHANGED <<store, issued, deleted, born, now, codecVars, sessVars, dbVars>>

----------------------------------------------------------------------------
\* The database holder (class SQLiteDatabase) and the session of a request
\* (get_db).  Objects are numbered in creation order; DbNone stands for
\* None.  db.engines lists the URL of every engine create_engine made,
\* db.sessions the engine of every session the session factory handed out.

DbNone == 0

\* the default of __init__'s database_url parameter
DefaultUrl == "sqlite:///:memory:"

\* another URL a caller may pass to the constructor
OtherUrl == "sqlite:///./other.db"

DB_NOT_CONNECTED_ERROR == "Database not connected. Call connect() first."

\* the class attributes as the class body leaves them
ClassBody ==
    [instance |-> DbNone, engine |-> DbNone, session_factory |-> DbNone,
     database_url |-> "", engines |-> <<>>, instances |-> 0, sessions |-> <<>>]

\* the outcome of a call on the holder
DbResult(exc, val, d) == [exc |-> exc, val |-> val, db |-> d]

\* SQLiteDatabase.connect: create_engine and sessionmaker, once
connect(d) ==
    IF d.engine = DbNone
    THEN [d EXCEPT !.engines = Append(@, d.database_url),
                   !.engine = Len(d.engines) + 1,
                   !.session_factory = Len(d.engines) + 1]
    ELSE d

\* SQLiteDatabase.__new__(cls)
SQLiteDatabaseNew(d) ==
    IF d.instance = DbNone
    THEN [d EXCEPT !.instances = @ + 1, !.instance = d.instances + 1]
    ELSE d

\* SQLiteDatabase.__init__(self, database_url)
SQLiteDatabaseInit(d, database_url) ==
    IF d.engine = DbNone THEN connect([d EXCEPT !.database_url = database_url]) ELSE d

\* the constructor call SQLiteDatabase(*args): the arguments go to __new__,
\* which takes none, and then to __init__
SQLiteDatabase(d, args) ==
    IF Len(args) # 0 THEN DbResult("TypeError", DbNone, d)
    ELSE DbResult("none", SQLiteDatabaseNew(d).instance,
                  SQLiteDatabaseInit(SQLiteDatabaseNew(d), DefaultUrl))

\* SQLiteDatabase.get_session: a new session bound to the factory's engine
get_session(d) ==
    IF d.session_factory = DbNone THEN DbResult(DB_NOT_CONNECTED_ERROR, DbNone, d)
    ELSE DbResult("none", Len(d.sessions) + 1,
                  [d EXCEPT !.sessions = Append(@, d.session_factory)])

\* SQLiteDatabase.close
close(d) ==
    IF d.engine # DbNone THEN [d EXCEPT !.engine = DbNone, !.session_factory = DbNone]
    ELSE d

\* the property SQLiteDatabase.engine
engine(d) ==
    IF d.engine = DbNone THEN DbResult(DB_NOT_CONNECTED_ERROR, DbNone, d)
    ELSE DbResult("none", d.engine, d)

\* the module after import: db_instance = SQLiteDatabase()
DbImported == SQLiteDatabase(ClassBody, <<>>).db

DbCall(op, args, r) == [op |-> op, args |-> args, exc |-> r.exc, val |-> r.val, before |-> db]

\* the constructor is called without an argument, or with a URL
DbConstruct ==
    /\ \E args \in {<<>>, <<OtherUrl>>} :
        \E r \in {SQLiteDatabase(db, args)} :
        /\ Len(r.db.engines) <= MaxEngines
        /\ db' = r.db
        /\ dbcall' = DbCall("SQLiteDatabase", args, r)
    /\ UNCHANGED <<appVars, codecVars, sessVars, reqs>>

DbConnect ==
    /\ db.instance # DbNone
    /\ Len(connect(db).engines) <= MaxEngines
    /\ db' = connect(db)
    /\ dbcall' = DbCall("connect", <<>>, DbResult("none", connect(db).engine, connect(db)))
    /\ UNCHANGED <<appVars, codecVars, sessVars, reqs>>

DbGetSession ==
    /\ db.instance # DbNone
    /\ Len(get_session(db).db.sessions) <= MaxSessions
    /\ db' = get_session(db).db
    /\ dbcall' = DbCall("get_session", <<>>, get_session(db))
    /\ UNCHANGED <<appVars, codecVars, sessVars, reqs>>

DbClose ==
    /\ db.instance # DbNone
    /\ db' = close(db)
    /\ dbcall' = DbCall("close", <<>>, DbResult("none", DbNone, close(db)))
    /\ UNCHANGED <<appVars, codecVars, sessVars, reqs>>

DbEngine ==
    /\ db.instance # DbNone
    /\ dbcall' = DbCall("engine", <<>>, engine(db))
    /\ UNCHANGED <<appVars, codecVars, sessVars, db, reqs>>

\* the requests in flight at once
Requests == {"p", "q"}

NoRequest == [pc |-> "idle", session |-> DbNone, closes |-> 0, exit |-> "none"]

\* a get_db that closes after its yield without a finally clause: only when
\* the handler returned
GetDbWithoutFinally(exit, closes) == IF exit = "return" THEN closes + 1 ELSE closes

\* get_db after its yield, on every exit of the request: the finally clause
\* calls session.close()
get_db_finally(exit, closes) == closes + 1

\* the calls a handler makes on the service
HandlerCalls ==
    {[op |-> "create", id |-> PyNone, fault |-> f] : f \in {"none", "commit"}}
    \cup {[op |-> "get", id |-> i, fault |-> "none"] : i \in ServiceIds}
    \cup {[op |-> "update", id |-> i, fault |-> f] : i \in ServiceIds, f \in {"none", "commit"}}
    \cup {[op |-> "close", id |-> i, fault |-> "none"] : i \in Range(issued)}
    \cup {[op |-> "delete", id |-> i, fault |-> f] : i \in Range(issued), f \in {"none", "commit"}}

\* the service call of a handler on the table
Handle(tbl, n, clock, c) ==
    CASE c.op = "create" ->
            svc_create_ticket(tbl, TicketCreate(PlainBody("T1", "D1")).val, n, clock, c.fault)
      [] c.op = "get" -> svc_get_ticket(tbl, c.id, c.fault)
      [] c.op = "update" ->
            svc_update_ticket(tbl, c.id, TicketUpdate(PlainBody("T3", "D3")).val, c.fault)
      [] c.op = "close" -> svc_close_ticket(tbl, c.id, c.fault)
      [] c.op = "delete" -> svc_delete_ticket(tbl, c.id, c.fault)

\* get_db up to its yield: session = db_instance.get_session()
ReqEnter(q) ==
    /\ reqs[q].pc = "idle"
    /\ db.instance # DbNone
    /\ \E r \in {get_session(db)} :
        /\ Len(r.db.sessions) <= MaxSessions
        /\ db' = r.db
        /\ reqs' = [reqs EXCEPT ![q] =
                    IF r.exc = "none"
                    THEN [pc |-> "yielded", session |-> r.val, closes |-> 0, exit |-> "none"]
                    ELSE [pc |-> "finished", session |-> DbNone, closes |-> 0,
                          exit |-> r.exc]]
    /\ UNCHANGED <<appVars, codecVars, sessVars, dbcall>>

\* the route handler runs with the session's repository and service
ReqHandle(q) ==
    /\ reqs[q].pc = "yielded"
    /\ \E c \in {h \in HandlerCalls : h.op = "create" => Len(issued) < NumUUIDs} :
        \E r \in {Handle(store, Len(issued), now, c)} :
        /\ store' = r.tbl
        /\ born' = BornAfter(born, r.tbl)
        /\ issued' = IF c.op = "create" THEN Append(issued, uuid4(Len(issued))) ELSE issued
        /\ deleted' = IF c.op = "delete" /\ r.exc = "none" THEN deleted \cup {c.id}
                      ELSE deleted
        /\ reqs' = [reqs EXCEPT ![q] = [@ EXCEPT !.pc = "handled", !.exit = IF r.exc = "none" THEN "return" ELSE r.exc]]
    /\ UNCHANGED <<now, last, codecVars, sessVars, db, dbcall>>

\* the generator is resumed or thrown into: its finally clause runs
ReqExit(q) ==
    /\ reqs[q].pc = "handled"
    /\ reqs' = [reqs EXCEPT ![q] =
                    [@ EXCEPT !.pc = "finished",
                              !.closes = get_db_finally(reqs[q].exit, reqs[q].closes)]]
    /\ UNCHANGED <<appVars, codecVars, sessVars, db, dbcall>>

\* the request is over; the next one of this worker starts afresh
ReqEnd(q) ==
    /\ reqs[q].pc = "finished"
    /\ reqs' = [reqs EXCEPT ![q] = NoRequest]
    /\ UNCHANGED <<appVars, codecVars, sessVars, db, dbcall>>

\* no call on the holder yet, no request in flight
DbIdle ==
    /\ dbcall = [op |-> "none", args |-> <<>>, exc |-> "none", val |-> DbNone,
                 before |-> ClassBody]
    /\ reqs = [q \in Requests |-> NoRequest]

----------------------------------------------------------------------------
\* Concurrent calls on one ticket: calls of update_ticket, close_ticket and
\* delete_ticket, each with the session get_db gave it, their statements
\* interleaved.  A session holds the instance its lookup loaded; its commit
\* flushes an UPDATE of the attributes whose value differs from the loaded
\* one, or the DELETE of the instance.

Sessions == {"A", "B"}

\* the ticket both calls address
SharedId == uuid4(0)

\* bodies of the concurrent updates: titles and descriptions that equal
\* the stored ones and that differ from them
SessionBodies ==
    {PlainBody(t, d) : t \in {"T1", "T3", "T4"}, d \in {"D1", "D3", "D4"}}

SessIdle ==
    /\ sess = [s \in Sessions |->
                [pc |-> "idle", op |-> "none", body |-> NoBody, loaded |-> PyNone,
                 result |-> PyNone, exc |-> "none"]]
    /\ commits = <<>>

\* the row after the flush of an instance loaded as `loaded` and assigned
\* `assigned`: UPDATE ... SET the attributes that changed
Flush(row, loaded, assigned) ==
    [row EXCEPT !.title = IF assigned.title # loaded.title THEN assigned.title ELSE @,
                !.description = IF assigned.description # loaded.description
                                THEN assigned.description ELSE @,
                !.status = IF assigned.status # loaded.status THEN assigned.status ELSE @]

\* the instance after the assignments of the call
Assigned(op, loaded, body) ==
    IF op = "update" THEN UpdateColumns(loaded, body)
    ELSE IF op = "close" THEN CloseColumns(loaded)
    ELSE loaded

\* a flush that writes the instance back as a new row when its row is gone
FlushedUpsert(tbl, loaded, assigned) ==
    IF Matching(tbl, BoundId(loaded.id)) = {}
    THEN Append(tbl, [assigned EXCEPT !.id = BoundId(loaded.id)])
    ELSE [tbl EXCEPT ![RowOf(tbl, loaded)] = Flush(@, loaded, assigned)]

\* the table after the flush: UPDATE ... WHERE id = the instance's id, which
\* changes the row if it is still there and no row otherwise
Flushed(tbl, loaded, assigned) ==
    IF Matching(tbl, BoundId(loaded.id)) = {} THEN tbl
    ELSE [tbl EXCEPT ![RowOf(tbl, loaded)] = Flush(@, loaded, assigned)]

\* the table after DELETE ... WHERE id = the instance's id
FlushedDelete(tbl, loaded) ==
    IF Matching(tbl, BoundId(loaded.id)) = {} THEN tbl
    ELSE RemoveAt(tbl, RowOf(tbl, loaded))

\* the UPDATE of the flush matched no row: the session raises StaleDataError
Stale(tbl, loaded, assigned) ==
    Matching(tbl, BoundId(loaded.id)) = {} /\ assigned # loaded

\* the failure each operation wraps a storage error in
FailureOf(op) ==
    IF op = "delete" THEN "TicketDeletionFailedException" ELSE "TicketUpdateFailedException"

\* update_ticket is called with a validated body, or close_ticket or
\* delete_ticket is called
SessCall(s, ops) ==
    /\ sess[s].pc = "idle"
    /\ \E op \in ops, body \in SessionBodies :
        /\ op # "update" => body = PlainBody("T1", "D1")
        /\ sess' = [sess EXCEPT ![s] =
                [@ EXCEPT !.pc = "called", !.op = op,
                          !.body = IF op = "update" THEN TicketUpdate(body).val ELSE NoBody]]
    /\ UNCHANGED <<appVars, codecVars, commits, dbVars>>

\* db_ticket = self.get_ticket(ticket_id); raise TicketNotFoundException
\* if it is None
SessLookup(s) ==
    /\ sess[s].pc = "called"
    /\ \E found \in {repo_get_ticket(store, SharedId, "none")} :
        /\ found.exc = "none"
        /\ sess' = [sess EXCEPT ![s] =
                IF found.val = PyNone
                THEN [@ EXCEPT !.pc = "raised", !.exc = "TicketNotFoundException"]
                ELSE [@ EXCEPT !.pc = "loaded", !.loaded = found.val]]
    /\ UNCHANGED <<appVars, codecVars, commits, dbVars>>

\* the assignments, or self.db.delete(db_ticket), and self.db.commit(); a
\* StaleDataError is caught, rolled back and wrapped
SessCommit(s) ==
    /\ sess[s].pc = "loaded"
    /\ \E assigned \in {Assigned(sess[s].op, sess[s].loaded, sess[s].body)} :
        IF Stale(store, sess[s].loaded, assigned)
        THEN /\ sess' = [sess EXCEPT ![s] =
                    [@ EXCEPT !.pc = "raised", !.exc = FailureOf(sess[s].op)]]
             /\ UNCHANGED <<store, deleted, born, commits>>
        ELSE /\ store' = IF sess[s].op = "delete" THEN FlushedDelete(store, sess[s].loaded)
                         ELSE Flushed(store, sess[s].loaded, assigned)
             /\ born' = BornAfter(born, store')
             /\ deleted' = IF sess[s].op = "delete" THEN deleted \cup {sess[s].loaded.id}
                           ELSE deleted
             /\ commits' = Append(commits, s)
             /\ sess' = [sess EXCEPT ![s] =
                    [@ EXCEPT !.pc = IF sess[s].op = "delete" THEN "returned"
                                     ELSE "committed"]]
    /\ UNCHANGED <<issued, now, last, codecVars, dbVars>>

\* self.db.refresh(db_ticket); return db_ticket.  The refresh of an
\* instance whose row is gone raises InvalidRequestError, which is caught,
\* rolled back and wrapped
SessRefresh(s) ==
    /\ sess[s].pc = "committed"
    /\ sess' = [sess EXCEPT ![s] =
            IF SharedId \in StoredIds(store)
            THEN [@ EXCEPT !.pc = "returned", !.result = LoadRow(RowById(store, SharedId))]
            ELSE [@ EXCEPT !.pc = "raised", !.exc = FailureOf(sess[s].op)]]
    /\ UNCHANGED <<appVars, codecVars, commits, dbVars>>

\* one ticket stored by a create, no request under way
OneTicketInit ==
    /\ store = repo_create_ticket(<<>>, TicketCreate(PlainBody("T1", "D1")).val, 0, 0, "none").tbl
    /\ issued = <<uuid4(0)>>
    /\ deleted = {}
    /\ born = BornAfter(<<>>, store)
    /\ now = 0
    /\ last = NoCall

InitSessions == OneTicketInit /\ CodecIdle /\ SessIdle /\ db = DbImported /\ DbIdle

NextSessions ==
    \/ \E s \in Sessions : SessCall(s, {"update"})
    \/ \E s \in Sessions : SessLookup(s)
    \/ \E s \in Sessions : SessCommit(s)
    \/ \E s \in Sessions : SessRefresh(s)

\* two concurrent updates of the one stored ticket
SpecSessions == InitSessions /\ [][NextSessions]_vars

NextRaces ==
    \/ \E s \in Sessions : SessCall(s, {"update", "close", "delete"})
    \/ \E s \in Sessions : SessLookup(s)
    \/ \E s \in Sessions : SessCommit(s)
    \/ \E s \in Sessions : SessRefresh(s)

\* two concurrent calls, each an update, a close or a delete, of the one
\* stored ticket
SpecRaces == InitSessions /\ [][NextRaces]_vars

----------------------------------------------------------------------------
\* Specifications.

AppInit ==
    /\ store = <<>>
    /\ issued = <<>>
    /\ deleted = {}
    /\ born = <<>>
    /\ now = 0
    /\ last = NoCall

Init == AppInit /\ CodecIdle /\ SessIdle /\ db = DbImported /\ DbIdle

Next ==
    \/ Tick
    \/ SvcCreate
    \/ SvcGet
    \/ SvcList
    \/ SvcUpdate
    \/ SvcClose
    \/ SvcDelete
    \/ HttpCreate
    \/ HttpGet
    \/ HttpUpdate
    \/ HttpClose
    \/ HttpDelete
    \/ Finish

Spec == Init /\ [][Next]_vars

CodecNext ==
    \/ CodecBind /\ UNCHANGED <<appVars, sessVars, dbVars>>
    \/ CodecLoad /\ UNCHANGED <<appVars, sessVars, dbVars>>
    \/ CodecDecode /\ UNCHANGED <<appVars, sessVars, dbVars>>

InitCodec == AppInit /\ CodecInit /\ SessIdle /\ db = DbImported /\ DbIdle

\* the codec alone: every value and dialect, bound and loaded back
SpecCodec == InitCodec /\ [][CodecNext]_vars

InitDatabase == AppInit /\ CodecIdle /\ SessIdle /\ db = ClassBody /\ DbIdle

NextDatabase ==
    \/ DbConstruct
    \/ DbConnect
    \/ DbGetSession
    \/ DbClose
    \/ DbEngine

\* the calls on the database holder, from the class body on
SpecDatabase == InitDatabase /\ [][NextDatabase]_vars

\* the module is imported; db_instance is connected, or was closed
InitRequests ==
    /\ AppInit /\ CodecIdle /\ SessIdle
    /\ db \in {DbImported, close(DbImported)}
    /\ DbIdle

NextRequests ==
    \/ \E q \in Requests : ReqEnter(q)
    \/ \E q \in Requests : ReqHandle(q)
    \/ \E q \in Requests : ReqExit(q)
    \/ \E q \in Requests : ReqEnd(q)

\* concurrent requests, each with the session get_db gives it
SpecRequests == InitRequests /\ [][NextRequests]_vars

----------------------------------------------------------------------------
\* Vocabulary of the properties.

AtService(ops) == last.layer = "service" /\ last.op \in ops

AtHttp(ops) == last.layer = "http" /\ last.op \in ops

IdAddressed == {"get", "update", "close", "delete"}

\* how many rows hold identifier u
Copies(tbl, u) == Cardinality({i \in DOMAIN tbl : LoadRow(tbl[i]).id = u})

\* the identifiers of the rows of a table in the order their creates ran
RECURSIVE CreationOrder(_, _)
CreationOrder(drawn, tbl) ==
    IF drawn = <<>> THEN <<>>
    ELSE IF Head(drawn) \in StoredIds(tbl)
    THEN <<Head(drawn)>> \o CreationOrder(Tail(drawn), tbl)
    ELSE CreationOrder(Tail(drawn), tbl)

----------------------------------------------------------------------------
\* C1: every successful create stores and returns a ticket with status
\* open and the title and description supplied, under an identifier that
\* no earlier create drew, whether or not that earlier ticket still exists.
C1_CreateFreshOpen ==
    /\ (AtService({"create"}) /\ last.exc = "none") =>
        /\ last.val.status = TicketStatusOPEN
        /\ last.val.title = last.body.title
        /\ last.val.description = last.body.description
        /\ last.val.id = issued[Len(issued)]
        /\ \A i \in 1..(Len(issued) - 1) : issued[i] # last.val.id
        /\ Copies(store, last.val.id) = 1
        /\ LoadRow(RowById(store, last.val.id)) = last.val
    /\ (AtHttp({"create"}) /\ last.code = HTTP_201_CREATED) =>
        /\ last.val.status = TicketStatusOPEN
        /\ last.val.title = last.body.title
        /\ last.val.description = last.body.description
        /\ last.val.id = UUIDStr(issued[Len(issued)])
        /\ \A i \in 1..(Len(issued) - 1) : UUIDStr(issued[i]) # last.val.id
        /\ Copies(store, issued[Len(issued)]) = 1
        /\ TicketJson(LoadRow(RowById(store, issued[Len(issued)]))) = last.val

\* a create succeeds after an earlier ticket was created and deleted
C1_Witness ==
    /\ last.op = "create"
    /\ last.exc = "none"
    /\ last.code \in {0, HTTP_201_CREATED}
    /\ Len(issued) >= 2
    /\ deleted # {}

----------------------------------------------------------------------------
----------------------------------------------------------------------------
----------------------------------------------------------------------------
\* C4: close is idempotent.  A close of an existing ticket succeeds and
\* leaves it closed; a close of a ticket that is already closed, as a second
\* close in a row finds it, succeeds with status closed and leaves the store
\* as it was; and closing once more from the state reached returns the same
\* ticket and the same store.
C4_CloseIdempotent ==
    (/\ AtService({"close"})
     /\ last.arg \in StoredIds(last.before)
     /\ last.fault = "none") =>
        /\ last.exc = "none"
        /\ last.val.status = TicketStatusCLOSED
        /\ RowById(store, last.arg).status = TicketStatusCLOSED
        /\ (RowById(last.before, last.arg).status = TicketStatusCLOSED => store = last.before)
        /\ svc_close_ticket(store, last.arg, "none") = Returned(last.val, store)

\* a close of a ticket that an earlier close left closed
C4_Witness ==
    /\ AtService({"close"})
    /\ last.exc = "none"
    /\ last.arg \in StoredIds(last.before)
    /\ RowById(last.before, last.arg).status = TicketStatusCLOSED
    /\ last.val.status = TicketStatusCLOSED

----------------------------------------------------------------------------
\* C5 as claimed: at the service layer, get, update, close and delete given
\* an identifier that matches no stored ticket signal NotFound, never a 500
\* failure, and leave the store unchanged.
C5_AbsentIdIsNotFound ==
    (/\ AtService(IdAddressed)
     /\ last.arg \notin StoredIds(last.before)
     /\ last.fault = "none") =>
        /\ last.exc = "TicketNotFoundException"
        /\ store = last.before

----------------------------------------------------------------------------
\* C6 as claimed: GET, PUT and PATCH .../close answer 404 for every path id
\* that passes the route's validation and matches no stored ticket.
C6_RouteAbsentIdIs404 ==
    (/\ AtHttp({"get", "update", "close"})
     /\ PathTicketId(last.arg.s).ok
     /\ \A u \in StoredIds(last.before) : UUIDStr(u) # last.arg.s
     /\ last.fault = "none") =>
        last.code = HTTP_404_NOT_FOUND

----------------------------------------------------------------------------
\* C7 as claimed: a GET that uses the id of a ticket exactly as the create
\* response gave it answers 200 with that id, title and description.
C7_IssuedIdIsAccepted ==
    (/\ AtHttp({"get"})
     /\ \E u \in StoredIds(last.before) : UUIDStr(u) = last.arg.s
     /\ last.fault = "none") =>
        /\ last.code = HTTP_200_OK
        /\ \E u \in StoredIds(last.before) :
            last.val = TicketJson(LoadRow(RowById(last.before, u)))
        /\ last.val.id = last.arg.s

----------------------------------------------------------------------------
\* C8: list(skip, limit) returns min(limit, max(0, total - skip)) tickets,
\* those at positions skip+1 .. skip+count of the order in which the stored
\* tickets were created; it returns the empty sequence when skip >= total.
C8_ListPage ==
    (AtService({"list"}) /\ last.fault = "none") =>
        /\ last.exc = "none"
        /\ Len(last.val) = Min(last.limit, Max(0, Len(last.before) - last.skip))
        /\ \A k \in 1..Len(last.val) :
            /\ last.val[k].id = CreationOrder(issued, last.before)[last.skip + k]
            /\ last.val[k] = LoadRow(RowById(last.before, last.val[k].id))
        /\ store = last.before

\* the second of two stored tickets is the whole page
C8_Witness ==
    /\ AtService({"list"})
    /\ last.exc = "none"
    /\ Len(last.before) = 2
    /\ last.skip = 1
    /\ Len(last.val) = 1
    /\ last.val[1].id = issued[Len(issued)]

----------------------------------------------------------------------------
\* C9: delete is a hard delete.  A deleted ticket is in no row of the store
\* and in no list result, and every later get, update, close or delete of
\* its id signals NotFound.
C9_HardDelete ==
    /\ \A u \in deleted : u \notin StoredIds(store)
    /\ (AtService({"list"}) /\ last.exc = "none") =>
        \A k \in 1..Len(last.val) : last.val[k].id \notin deleted
    /\ (/\ AtService(IdAddressed)
        /\ last.arg \in deleted
        /\ last.arg \notin StoredIds(last.before)
        /\ last.fault = "none") =>
            last.exc = "TicketNotFoundException"

\* a get of a deleted ticket, answered NotFound
C9_Witness ==
    /\ AtService({"get"})
    /\ last.arg \in deleted
    /\ last.exc = "TicketNotFoundException"

----------------------------------------------------------------------------
\* C10: under both dialects, binding an identifier and loading the bound
\* value back yields the identifier; under sqlite the bound value is the
\* 36-character text of the identifier.
C10_CodecRoundTrip ==
    (cvalue.t = "UUID") =>
        /\ (cpc # "start" => cbound.ok)
        /\ (cpc # "start" /\ cdialect = "sqlite" =>
                cbound.val.t = "str" /\ Len(cbound.val.s) = GUIDImplLength)
        /\ (cpc = "loaded" => (cloaded.ok /\ cloaded.val = cvalue))

\* an identifier bound as text and loaded back
C10_Witness ==
    /\ cpc = "loaded"
    /\ cvalue.t = "UUID"
    /\ cdialect = "sqlite"
    /\ cbound.val.t = "str"
    /\ cloaded.ok

----------------------------------------------------------------------------
----------------------------------------------------------------------------
\* C12: a create or update request whose title is missing, empty or longer
\* than 200 characters, or whose description is missing or empty, is
\* answered 422 and leaves the store as it was: no ticket is created and
\* none is changed.
C12_InvalidBodyRejected ==
    (/\ AtHttp({"create", "update"})
     /\ \/ "title" \notin last.body.fields
        \/ Len(last.body.title) < TitleMinLength
        \/ Len(last.body.title) > TitleMaxLength
        \/ "description" \notin last.body.fields
        \/ Len(last.body.description) < DescriptionMinLength) =>
        /\ last.code = HTTP_422_UNPROCESSABLE_ENTITY
        /\ last.val = PyNone
        /\ store = last.before

\* a create with a title of 201 characters, refused while a ticket exists
C12_Witness ==
    /\ AtHttp({"create"})
    /\ Len(last.body.title) = TitleMaxLength + 1
    /\ last.fault = "none"
    /\ last.code = HTTP_422_UNPROCESSABLE_ENTITY
    /\ Len(store) = 1

----------------------------------------------------------------------------
\* C13 as claimed: the repository's get_ticket returns None, raising
\* nothing, for every id argument that matches no stored row.
C13_RepositoryGetAbsentIsNone ==
    (/\ AtService({"get"})
     /\ last.arg \notin StoredIds(last.before)) =>
        /\ repo_get_ticket(last.before, last.arg, "none").exc = "none"
        /\ repo_get_ticket(last.before, last.arg, "none").val = PyNone

----------------------------------------------------------------------------
\* C14 as claimed: whenever create, update, close or delete signals a
\* failure (CreationFailed, UpdateFailed, DeletionFailed or NotFound), the
\* committed content of the store is what it was before the call, a failure
\* raised by the refresh after the commit included.
C14_NoPartialSuccess ==
    (/\ AtService({"create", "update", "close", "delete"})
     /\ last.exc \in {"TicketCreationFailedException", "TicketUpdateFailedException",
                      "TicketDeletionFailedException", "TicketNotFoundException"}) =>
        store = last.before

----------------------------------------------------------------------------
\* C15 as claimed: in every repository operation a storage exception is
\* caught, the transaction is rolled back and a typed failure is raised: no
\* raw storage exception comes out of create, get, list, update, close or
\* delete.
C15_StorageErrorsAreTyped ==
    (/\ AtService({"create", "get", "list", "update", "close", "delete"})
     /\ last.arg.t # "int"
     /\ last.fault # "none"
     /\ last.exc \notin {"none", "TicketNotFoundException"}) =>
        /\ last.exc \in {"TicketCreationFailedException", "TicketUpdateFailedException",
                         "TicketDeletionFailedException"}
        /\ last.rollback

----------------------------------------------------------------------------
\* C16: when the lookup inside update, close or delete finds no row, the
\* operation signals NotFound itself: the generic handler does not turn it
\* into UpdateFailed or DeletionFailed, nothing is rolled back and nothing
\* is written, whatever would have happened at the commit.
C16_NotFoundIsNotWrapped ==
    (/\ AtService({"update", "close", "delete"})
     /\ last.arg.t = "UUID"
     /\ last.arg \notin StoredIds(last.before)
     /\ last.fault # "execute") =>
        /\ last.exc = "TicketNotFoundException"
        /\ StatusCode(last.exc) = HTTP_404_NOT_FOUND
        /\ ~last.rollback
        /\ store = last.before

\* an update of an identifier no row holds, others being stored
C16_Witness ==
    /\ AtService({"update"})
    /\ last.arg = StrangerUUID
    /\ last.fault = "commit"
    /\ last.exc = "TicketNotFoundException"
    /\ Len(store) >= 1

----------------------------------------------------------------------------
\* C17: close of an existing ticket sets its status to closed whatever the
\* status was, and changes nothing else: the ticket keeps its title and
\* description, and every other row stays as it was.
C17_CloseChangesStatusOnly ==
    (/\ AtService({"close"})
     /\ last.arg \in StoredIds(last.before)
     /\ last.fault = "none") =>
        /\ last.exc = "none"
        /\ last.val.status = TicketStatusCLOSED
        /\ last.val.title = RowById(last.before, last.arg).title
        /\ last.val.description = RowById(last.before, last.arg).description
        /\ Len(store) = Len(last.before)
        /\ \A i \in DOMAIN store :
            store[i] = [last.before[i] EXCEPT
                !.status = IF LoadRow(last.before[i]).id = last.arg
                           THEN TicketStatusCLOSED ELSE @]

\* a close of an open ticket whose title an update had changed, next to
\* another ticket
C17_Witness ==
    /\ AtService({"close"})
    /\ last.exc = "none"
    /\ Len(last.before) = 2
    /\ last.arg \in StoredIds(last.before)
    /\ RowById(last.before, last.arg).status = TicketStatusOPEN
    /\ RowById(last.before, last.arg).title = "T3"
    /\ last.val.title = "T3"

----------------------------------------------------------------------------
\* C18: in every reachable state each stored ticket's status is one of
\* open, stalled, closed, and so is the status of every ticket returned.
C18_StatusEnumerated ==
    /\ \A i \in DOMAIN store : store[i].status \in TicketStatus
    /\ (AtService({"create", "get", "update", "close"}) /\ last.exc = "none") =>
        last.val.status \in TicketStatus
    /\ (AtService({"list"}) /\ last.exc = "none") =>
        \A k \in DOMAIN last.val : last.val[k].status \in TicketStatus

\* an update whose body carried a status outside the enumeration has gone
\* through, next to a closed ticket
C18_Witness ==
    /\ AtService({"update"})
    /\ last.exc = "none"
    /\ last.body.status = InvalidStatus
    /\ Len(store) = 2
    /\ \E i \in DOMAIN store : store[i].status = TicketStatusCLOSED
    /\ \E i \in DOMAIN store : store[i].status = TicketStatusOPEN

----------------------------------------------------------------------------
\* C19: a ticket's id and created_at are assigned once, at its creation:
\* in every reachable state each stored ticket carries the created_at it
\* was inserted with, under an identifier exactly one row holds, and every
\* ticket a get, update or close returns carries the identifier asked for
\* and that same created_at.
C19_IdAndCreatedAtFixed ==
    /\ DOMAIN born = StoredIds(store)
    /\ \A i \in DOMAIN store :
        /\ store[i].created_at = born[LoadRow(store[i]).id]
        /\ Copies(store, LoadRow(store[i]).id) = 1
    /\ (AtService({"get", "update", "close"}) /\ last.exc = "none") =>
        /\ last.val.id = last.arg
        /\ last.val.created_at = born[last.arg]

\* an update at a later time of one of two tickets created at different
\* times
C19_Witness ==
    /\ AtService({"update"})
    /\ last.exc = "none"
    /\ Len(store) = 2
    /\ store[1].created_at < store[2].created_at
    /\ last.arg = LoadRow(store[1]).id
    /\ born[last.arg] < now
    /\ last.val.title # RowById(last.before, last.arg).title

----------------------------------------------------------------------------
\* C20 as claimed: when two concurrent updates of the same ticket have both
\* committed, the stored title and description are both the ones supplied
\* by the call that committed last, never a mix of the two calls' values.
C20_LastCommitterWins ==
    (Len(commits) = 2) =>
        /\ RowById(store, SharedId).title = sess[commits[2]].body.title
        /\ RowById(store, SharedId).description = sess[commits[2]].body.description


\* the failures the repository raises as HTTP exceptions
TypedFailures ==
    {"TicketNotFoundException", "TicketCreationFailedException",
     "TicketUpdateFailedException", "TicketDeletionFailedException"}

\* C21: every session get_db obtained is closed exactly once when its
\* request finishes, whatever the exit path of the handler (return, typed
\* failure, untyped exception); a session is never closed twice, and a
\* request that got no session closes none.
C21_SessionClosedOnce ==
    \A q \in Requests :
        /\ reqs[q].closes <= 1
        /\ reqs[q].pc = "finished" =>
              reqs[q].closes = (IF reqs[q].session # DbNone THEN 1 ELSE 0)
        /\ reqs[q].pc \in {"yielded", "handled"} =>
              (reqs[q].session # DbNone /\ reqs[q].closes = 0)

\* a request whose handler raised a typed failure has finished, its session
\* closed, while another request's handler raised an untyped exception and
\* has finished too
C21_Witness ==
    \E q, p \in Requests :
        /\ reqs[q].pc = "finished" /\ reqs[q].session # DbNone
        /\ reqs[q].exit \in TypedFailures /\ reqs[q].closes = 1
        /\ reqs[p].pc = "finished" /\ reqs[p].session # DbNone
        /\ reqs[p].exit \notin TypedFailures \cup {"return", "none"}
        /\ reqs[p].closes = 1


----------------------------------------------------------------------------
\* the canonical text of a UUID: 36 characters, hyphens at 9, 14, 19 and 24,
\* lowercase hexadecimal digits elsewhere
IsCanonicalText(chars) ==
    /\ Len(chars) = GUIDImplLength
    /\ \A i \in 1..Len(chars) :
          IF i \in {9, 14, 19, 24} THEN chars[i] = "-" ELSE chars[i] \in Range(LowerHex)

\* the canonical text chars spells the 128 bits of u
Spells(chars, u) ==
    /\ IsCanonicalText(chars)
    /\ \A i \in 1..32 : HexVal(RemoveChar(chars, "-")[i]) = u.hex[i]

\* the identifiers a value denotes: itself, or the one a text is a form of
Denoted(value) ==
    IF value.t = "UUID" THEN {value}
    ELSE IF value.t = "str" THEN {u \in CodecUUIDs : value.s \in TextForms(u)}
    ELSE {}

\* C22: under sqlite, binding an identifier given as a UUID object or as
\* any accepted UUID text yields the canonical 36-character hyphenated
\* lowercase text of that identifier; under postgresql a non-null value is
\* bound unchanged; None is bound as None and loaded as None under both.
C22_BindCanonical ==
    /\ cpc \in {"bound", "loaded"} =>
        /\ (cvalue = PyNone =>
                /\ cbound = Ok(PyNone)
                /\ cpc = "loaded" => cloaded = Ok(PyNone))
        /\ (cvalue # PyNone /\ cdialect = "postgresql" => cbound = Ok(cvalue))
        /\ (cdialect = "sqlite" =>
                \A u \in Denoted(cvalue) :
                    cbound.ok /\ cbound.val.t = "str" /\ Spells(cbound.val.s, u))
    /\ cpc = "decoded" /\ cvalue = PyNone => cloaded = Ok(PyNone)

\* an uppercase text bound under sqlite: the bound text differs from it
C22_Witness ==
    /\ cpc = "bound"
    /\ cdialect = "sqlite"
    /\ cvalue.t = "str"
    /\ Denoted(cvalue) # {}
    /\ ~IsCanonicalText(cvalue.s)
    /\ cbound.ok
    /\ IsCanonicalText(cbound.val.s)


----------------------------------------------------------------------------
\* C23: under sqlite, loading a stored text that is not valid UUID text
\* fails with ValueError and yields no identifier; under postgresql the
\* stored value is returned as it is, valid or not.
C23_DecodeInvalidFails ==
    (cpc = "decoded" /\ cvalue.t = "str") =>
        /\ (cdialect = "sqlite" /\ cvalue.s \in BadTexts =>
                ~cloaded.ok /\ cloaded.exc = "ValueError")
        /\ (cdialect = "postgresql" => cloaded = Ok(cvalue))

\* a malformed text was loaded under sqlite and the load failed
C23_Witness ==
    /\ cpc = "decoded"
    /\ cdialect = "sqlite"
    /\ cvalue.t = "str"
    /\ cvalue.s \in BadTexts
    /\ ~cloaded.ok


----------------------------------------------------------------------------
----------------------------------------------------------------------------
\* C25: when a delete of the ticket has committed, the ticket is in no row
\* of the store in any later state: a concurrent update or close that
\* looked the ticket up before the delete's commit and commits after it
\* does not bring the row back, and no row is added in its place.
C25_DeletedStaysAbsent ==
    (SharedId \in deleted) =>
        /\ SharedId \notin StoredIds(store)
        /\ store = <<>>

\* a delete committed after the other call's lookup and before its commit;
\* the other call, an update that changes the title, then failed
C25_Witness ==
    \E s, t \in Sessions :
        /\ sess[s].op = "delete" /\ sess[s].pc = "returned"
        /\ sess[t].op = "update" /\ sess[t].pc = "raised"
        /\ sess[t].loaded # PyNone
        /\ sess[t].body.title # sess[t].loaded.title
        /\ sess[t].exc = "TicketUpdateFailedException"
        /\ SharedId \in deleted


----------------------------------------------------------------------------
\* the column value the argument of a call is compared with: the text of
\* an identifier, the argument itself otherwise
AddressedColumn(arg) == IF arg.t = "UUID" THEN BoundId(arg) ELSE arg

\* the rows of a table other than those of one id column value, in order
RECURSIVE Others(_, _)
Others(tbl, column) ==
    IF tbl = <<>> THEN <<>>
    ELSE IF Head(tbl).id = column THEN Others(Tail(tbl), column)
    ELSE <<Head(tbl)>> \o Others(Tail(tbl), column)

----------------------------------------------------------------------------
----------------------------------------------------------------------------
\* C28 as claimed: over any sequence of constructor calls, connect(),
\* get_session() and close(), every constructor call returns the one
\* instance; while an engine exists a constructor call or connect() makes no
\* second engine and leaves the URL as it is, whatever URL the call names;
\* with no engine, get_session() and the engine accessor fail with the
\* not-connected error, and connect() or a constructor call makes a fresh
\* engine.
C28_SingletonHolder ==
    /\ db.instances <= 1
    /\ dbcall.op = "SQLiteDatabase" =>
          /\ dbcall.exc = "none"
          /\ dbcall.val = db.instance
          /\ dbcall.before.instance # DbNone => dbcall.val = dbcall.before.instance
    /\ (dbcall.op \in {"SQLiteDatabase", "connect"} /\ dbcall.before.engine # DbNone) =>
          /\ db.engines = dbcall.before.engines
          /\ db.engine = dbcall.before.engine
          /\ db.database_url = dbcall.before.database_url
    /\ (dbcall.op \in {"SQLiteDatabase", "connect"} /\ dbcall.before.engine = DbNone) =>
          /\ db.engine = Len(dbcall.before.engines) + 1
          /\ db.session_factory = db.engine
    /\ (dbcall.op \in {"get_session", "engine"} /\ dbcall.before.engine = DbNone) =>
          dbcall.exc = DB_NOT_CONNECTED_ERROR
    /\ dbcall.op = "close" => (db.engine = DbNone /\ db.session_factory = DbNone)

====
